---- MODULE Spec2Model ----
(***************************************************************************)
(* hydromt Model API (hydromt/models/model_api.py): the build / update     *)
(* pipeline, option validation, method dispatch, the root / mode manager,  *)
(* the config tree and the component store, as a state machine.            *)
(*                                                                         *)
(* Strings that the code inspects character-wise (option keys, method      *)
(* names) are sequences of atoms: a digit is one atom, a run of other      *)
(* characters is one atom.  "setup_basemaps2" is <<"setup_","basemaps","2">>*)
(***************************************************************************)
EXTENDS Integers, Sequences, FiniteSets, TLC

VARIABLES model, disk, opt, opt0, args, op, pc, at, idx, err, trace, pre, runs

vars == <<model, disk, opt, opt0, args, op, pc, at, idx, err, trace, pre, runs>>

(***************************************************************************)
(* Bounds                                                                  *)
(***************************************************************************)
MaxOpt == 3      \* entries of an option mapping
MaxRuns == 2     \* build / update calls made on one model
MaxCalls == 2    \* direct calls of the model's methods before a build / update

(***************************************************************************)
(* Generic helpers                                                         *)
(***************************************************************************)
None == "None"

EmptyMap == [k \in {} |-> None]

Put(f, k, v) == [x \in (DOMAIN f) \cup {k} |-> IF x = k THEN v ELSE f[x]]

Without(f, k) == [x \in (DOMAIN f) \ {k} |-> f[x]]

Range(s) == {s[i] : i \in DOMAIN s}

RemoveAt(s, i) == [j \in 1..(Len(s) - 1) |-> IF j < i THEN s[j] ELSE s[j + 1]]

(***************************************************************************)
(* str.strip("0123456789"): removes leading and trailing digit characters. *)
(***************************************************************************)
Digits == {"0", "1", "2", "3", "4", "5", "6", "7", "8", "9"}

RECURSIVE LStripDigits(_)
LStripDigits(s) ==
    IF s # <<>> /\ Head(s) \in Digits THEN LStripDigits(Tail(s)) ELSE s

RECURSIVE RStripDigits(_)
RStripDigits(s) ==
    IF s # <<>> /\ s[Len(s)] \in Digits
    THEN RStripDigits(SubSeq(s, 1, Len(s) - 1))
    ELSE s

Strip(s) == LStripDigits(RStripDigits(s))

(***************************************************************************)
(* Attribute names of a concrete model.                                    *)
(***************************************************************************)
setup_config == <<"setup_", "config">>
setup_basemaps == <<"setup_", "basemaps">>
write_config == <<"write_config">>

\* callable attributes: the methods a pipeline entry may name
Methods == {setup_config, setup_basemaps, write_config}

\* non-callable attributes: properties, evaluated by getattr / hasattr
Properties == {<<"config">>, <<"staticmaps">>}

SetupName(m) == <<"setup_">> \o m

(***************************************************************************)
(* Values                                                                  *)
(***************************************************************************)
RootA == "/A"
RootB == "/B"
DataDir == "DATADIR"      \* join(_DATADIR, _NAME): home of the packaged default config

kw_region == <<"region">>
kw_res == <<"res">>
kw_other == <<"hydrography_fn">>
kw_config_root == <<"config_root">>

(***************************************************************************)
(* Exceptions.  A world is [m: model object, d: file system, tr: event     *)
(* log, err: the exception that is propagating, or NoErr].  Every          *)
(* operation maps a world to a world and does nothing once an exception    *)
(* propagates.                                                             *)
(***************************************************************************)
NoErr == "ok"
ErrNoMethod == "ValueError: Model has no method"
ErrDeprecated == "DeprecationWarning: Use full name"
ErrModelOut == "ValueError: model_out directory required"
ErrNoRegion == "ValueError: Model region not found"
ErrRootUnknown == "ValueError: Root unknown"
ErrMode == "ValueError: mode unknown"
ErrReadOnly == "IOError: Model opened in read-only mode"
ErrRootNotFound == "IOError: model root not found"
ErrOverwrite == "IOError: Cannot overwrite in read-only mode"
ErrNoDir == "IOError: No such file or directory"
ErrTypeError == "TypeError: missing required argument"
ErrSetup == "Exception: raised by setup method"
ErrNameRequired == "ValueError: name required"
ErrNameNotFound == "ValueError: Name not found in DataSet"
ErrFirstMap == "ValueError: First parameter map(s) should xarray.Dataset"
ErrShape == "ValueError: Shape of data and staticmaps do not match"
ErrGeomType == "ValueError: should be geopandas.GeoDataFrame or geopandas.GeoSeries"
ErrDataType == "ValueError: Data type not recognized"

ValueErrors == {ErrNoMethod, ErrModelOut, ErrNoRegion, ErrRootUnknown, ErrMode}

Ok(w) == w.err = NoErr

Raise(w, e) == [w EXCEPT !.err = e]

\* one entry of the event log, with the root and mode in force when it happens
Event(w, ev, m, kw) ==
    [w EXCEPT !.tr = Append(@, [ev |-> ev, m |-> m, kw |-> kw,
                                root |-> w.m.root, read |-> w.m.read,
                                write |-> w.m.write])]

(***************************************************************************)
(* Root / mode manager                                                     *)
(***************************************************************************)
Modes == {"r", "r+", "w"}

\* Model.root property
RootProp(w) ==
    IF ~Ok(w) THEN w
    ELSE IF w.m.root = None THEN Raise(w, ErrRootUnknown) ELSE w

\* the mode tested after the root and the flags are assigned
SetRootChecksModeLate(w, root, mode) ==
    IF ~Ok(w) THEN w
    ELSE LET isread == mode \in {"r", "r+"}
             iswrite == mode # "r"
             w1 == Event([w EXCEPT !.m.root = root, !.m.read = isread,
                                   !.m.write = iswrite],
                         "set_root", <<>>, EmptyMap)
         IN  IF mode \notin Modes THEN Raise(w1, ErrMode)
             ELSE IF root = None THEN w1
             ELSE IF iswrite
                  THEN [w1 EXCEPT !.d.dirs = @ \cup {root}]
                  ELSE IF root \notin w1.d.dirs
                       THEN Raise(w1, ErrRootNotFound)
                       ELSE w1

\* the directory test of read mode left out
SetRootSkipsDirCheck(w, root, mode) ==
    IF ~Ok(w) THEN w
    ELSE IF mode \notin Modes THEN Raise(w, ErrMode)
    ELSE LET isread == mode \in {"r", "r+"}
             iswrite == mode # "r"
             w1 == Event([w EXCEPT !.m.root = root, !.m.read = isread,
                                   !.m.write = iswrite],
                         "set_root", <<>>, EmptyMap)
         IN  IF root # None /\ iswrite
             THEN [w1 EXCEPT !.d.dirs = @ \cup {root}]
             ELSE w1

\* an existing folder refused in pure write mode instead of warned about
SetRootRefusesExisting(w, root, mode) ==
    IF ~Ok(w) THEN w
    ELSE IF mode \notin Modes THEN Raise(w, ErrMode)
    ELSE LET isread == mode \in {"r", "r+"}
             iswrite == mode # "r"
             w1 == Event([w EXCEPT !.m.root = root, !.m.read = isread,
                                   !.m.write = iswrite],
                         "set_root", <<>>, EmptyMap)
         IN  IF root = None THEN w1
             ELSE IF iswrite
                  THEN IF root \in w1.d.dirs /\ ~isread
                       THEN Raise(w1, ErrNoDir)
                       ELSE [w1 EXCEPT !.d.dirs = @ \cup {root}]
                  ELSE IF root \notin w1.d.dirs
                       THEN Raise(w1, ErrRootNotFound)
                       ELSE w1

\* Model.set_root, _FOLDERS = [""]
SetRoot(w, root, mode) ==
    IF ~Ok(w) THEN w
    ELSE IF mode \notin Modes THEN Raise(w, ErrMode)
    ELSE LET isread == mode \in {"r", "r+"}
             iswrite == mode # "r"
             w1 == Event([w EXCEPT !.m.root = root, !.m.read = isread,
                                   !.m.write = iswrite],
                         "set_root", <<>>, EmptyMap)
         IN  IF root = None THEN w1
             ELSE IF iswrite
                  THEN [w1 EXCEPT !.d.dirs = @ \cup {root}]
                  ELSE IF root \notin w1.d.dirs
                       THEN Raise(w1, ErrRootNotFound)
                       ELSE w1

(***************************************************************************)
(* Config tree: a mapping from key to node; a node is a scalar (Leaf) or a *)
(* nested mapping (Dict).                                                  *)
(***************************************************************************)
Leaf(v) == [isdict |-> FALSE, val |-> v, kids |-> EmptyMap]

Dict(t) == [isdict |-> TRUE, val |-> None, kids |-> t]

NoFile == [exists |-> FALSE, tree |-> EmptyMap]

File(t) == [exists |-> TRUE, tree |-> t]

\* str.split("."): the segments between "." atoms
RECURSIVE SplitDots(_, _)
SplitDots(s, cur) ==
    IF s = <<>> THEN <<cur>>
    ELSE IF Head(s) = "." THEN <<cur>> \o SplitDots(Tail(s), <<>>)
    ELSE SplitDots(Tail(s), Append(cur, Head(s)))

Split(s) == SplitDots(s, <<>>)

HasDot(s) == \E i \in DOMAIN s : s[i] = "."

\* args = args[0].split(".") when the single key holds a "."
KeyPath(key) == IF HasDot(key) THEN Split(key) ELSE <<key>>

\* Model.read_config
ReadConfig(w) ==
    IF ~Ok(w) THEN w
    ELSE IF ~w.m.read
         THEN LET f == w.d.files[DataDir]
              IN  Event([w EXCEPT !.m.config = IF f.exists THEN f.tree ELSE EmptyMap],
                        "read_config", <<>>, EmptyMap)
         ELSE LET w1 == RootProp(w)
              IN  IF ~Ok(w1) THEN w1
                  ELSE LET f == w.d.files[w.m.root]
                       IN  Event([w EXCEPT !.m.config =
                                      IF f.exists THEN f.tree ELSE EmptyMap],
                                 "read_config", <<>>, EmptyMap)

\* Model.config property: an empty tree is (re)initialised from file
ConfigProp(w) ==
    IF ~Ok(w) THEN w
    ELSE IF w.m.config = EmptyMap THEN ReadConfig(w) ELSE w

\* an intermediate level kept whenever the key exists, mapping or not
RECURSIVE SetBranchKeepsScalar(_, _, _)
SetBranchKeepsScalar(branch, path, value) ==
    LET key == Head(path)
    IN  IF Len(path) = 1 THEN Put(branch, key, Leaf(value))
        ELSE IF key \in DOMAIN branch /\ ~branch[key].isdict THEN branch
        ELSE LET sub == IF key \in DOMAIN branch THEN branch[key].kids ELSE EmptyMap
             IN  Put(branch, key, Dict(SetBranchKeepsScalar(sub, Tail(path), value)))

\* the loop of Model.set_config over the keys of the path
RECURSIVE SetBranch(_, _, _)
SetBranch(branch, path, value) ==
    LET key == Head(path)
    IN  IF Len(path) = 1 THEN Put(branch, key, Leaf(value))
        ELSE LET sub == IF key \in DOMAIN branch /\ branch[key].isdict
                        THEN branch[key].kids
                        ELSE EmptyMap
             IN  Put(branch, key, Dict(SetBranch(sub, Tail(path), value)))

\* the write test left out
SetConfigUnguarded(w, key, value) ==
    IF ~Ok(w) THEN w
    ELSE LET w1 == ConfigProp(w)
         IN  IF ~Ok(w1) THEN w1
             ELSE [w1 EXCEPT !.m.config = SetBranch(@, KeyPath(key), value)]

\* Model.set_config(key, value)
SetConfig(w, key, value) ==
    IF ~Ok(w) THEN w
    ELSE IF ~w.m.write THEN Raise(w, ErrReadOnly)
    ELSE LET w1 == ConfigProp(w)
         IN  IF ~Ok(w1) THEN w1
             ELSE [w1 EXCEPT !.m.config = SetBranch(@, KeyPath(key), value)]

\* Model.setup_config(**cfdict)
RECURSIVE SetupConfig(_, _)
SetupConfig(w, cfdict) ==
    IF ~Ok(w) \/ DOMAIN cfdict = {} THEN w
    ELSE LET key == CHOOSE k \in DOMAIN cfdict : TRUE
         IN  SetupConfig(SetConfig(w, key, cfdict[key]), Without(cfdict, key))

\* the loop of Model.get_config over the keys before the last one
RECURSIVE WalkTo(_, _)
WalkTo(branch, keys) ==
    IF keys = <<>> THEN branch
    ELSE LET key == Head(keys)
         IN  IF key \notin DOMAIN branch THEN WalkTo(EmptyMap, Tail(keys))
             ELSE IF ~branch[key].isdict THEN EmptyMap
             ELSE WalkTo(branch[key].kids, Tail(keys))

\* Model.get_config(key, fallback=fallback): the node found at the path
GetConfig(config, key, fallback) ==
    LET path == KeyPath(key)
        branch == WalkTo(config, SubSeq(path, 1, Len(path) - 1))
        last == path[Len(path)]
    IN  IF last \in DOMAIN branch THEN branch[last] ELSE Leaf(fallback)

\* Model.write_config(config_root=...) with config.configwrite
WriteConfig(w, kw) ==
    IF ~Ok(w) THEN w
    ELSE LET w0 == Event(w, "write_config", <<>>, kw)
             w1 == IF kw_config_root \in DOMAIN kw THEN w0 ELSE RootProp(w0)
             config_root == IF kw_config_root \in DOMAIN kw
                            THEN kw[kw_config_root] ELSE w0.m.root
             w2 == ConfigProp(w1)
         IN  IF ~Ok(w2) THEN w2
             ELSE IF config_root \notin w2.d.dirs THEN Raise(w2, ErrNoDir)
             ELSE [w2 EXCEPT !.d.files[config_root] = File(w2.m.config)]

(***************************************************************************)
(* Component store: staticmaps and staticgeoms (name -> value mappings)    *)
(***************************************************************************)
\* what a read_<kind> collaborator adds to the collection in memory
Loaded(mem, ondisk) ==
    [n \in (DOMAIN mem) \cup (DOMAIN ondisk) |->
        IF n \in DOMAIN ondisk THEN ondisk[n] ELSE mem[n]]

\* Model.read_staticmaps: reset in read-only mode, then the subclass loads root's maps
ReadStaticmaps(w) ==
    IF ~Ok(w) THEN w
    ELSE LET w1 == IF ~w.m.write THEN [w EXCEPT !.m.staticmaps = EmptyMap] ELSE w
             w2 == RootProp(Event(w1, "read_staticmaps", <<>>, EmptyMap))
         IN  IF ~Ok(w2) THEN w2
             ELSE [w2 EXCEPT !.m.staticmaps = Loaded(@, w2.d.maps[w2.m.root])]

\* Model.read_staticgeoms: reset in read-only mode, then the subclass loads root's geoms
ReadStaticgeoms(w) ==
    IF ~Ok(w) THEN w
    ELSE LET w1 == IF ~w.m.write THEN [w EXCEPT !.m.staticgeoms = EmptyMap] ELSE w
             w2 == RootProp(Event(w1, "read_staticgeoms", <<>>, EmptyMap))
         IN  IF ~Ok(w2) THEN w2
             ELSE [w2 EXCEPT !.m.staticgeoms = Loaded(@, w2.d.geoms[w2.m.root])]

\* Model.write_staticmaps: refused in read-only mode, else the subclass writes to root
WriteStaticmaps(w) ==
    IF ~Ok(w) THEN w
    ELSE LET w0 == Event(w, "write_staticmaps", <<>>, EmptyMap)
         IN  IF ~w0.m.write THEN Raise(w0, ErrReadOnly)
             ELSE LET w1 == RootProp(w0)
                  IN  IF ~Ok(w1) THEN w1
                      ELSE IF w1.m.root \notin w1.d.dirs THEN Raise(w1, ErrNoDir)
                      ELSE [w1 EXCEPT !.d.maps[w1.m.root] = w1.m.staticmaps]

\* Model.staticmaps property: lazy read when empty and readable
StaticmapsProp(w) ==
    IF ~Ok(w) THEN w
    ELSE IF w.m.staticmaps = EmptyMap /\ w.m.read THEN ReadStaticmaps(w) ELSE w

\* Model.staticgeoms property: lazy read when empty and readable
StaticgeomsProp(w) ==
    IF ~Ok(w) THEN w
    ELSE IF w.m.staticgeoms = EmptyMap /\ w.m.read THEN ReadStaticgeoms(w) ELSE w

\* a value that is neither a GeoDataFrame nor a GeoSeries
NotGeom == "not a geometry"

\* every set refused in read-only mode, not only an overwrite
SetStaticgeomsRefusesNew(w, geom, name) ==
    IF ~Ok(w) THEN w
    ELSE IF geom = NotGeom THEN Raise(w, ErrGeomType)
    ELSE IF ~w.m.write THEN Raise(w, ErrOverwrite)
    ELSE [w EXCEPT !.m.staticgeoms = Put(@, name, geom)]

\* Model.set_staticgeoms(geom, name)
SetStaticgeoms(w, geom, name) ==
    IF ~Ok(w) THEN w
    ELSE IF geom = NotGeom THEN Raise(w, ErrGeomType)
    ELSE IF name \in DOMAIN w.m.staticgeoms /\ ~w.m.write
         THEN Raise(w, ErrOverwrite)
         ELSE [w EXCEPT !.m.staticgeoms = Put(@, name, geom)]

(***************************************************************************)
(* A payload is [type, name, fields, fits]: type is "Dataset" (fields: its *)
(* named variables in order), "DataArray" (name: its own name or None,     *)
(* fields: its one value), "ndarray" (fits: its shape equals the maps')    *)
(* or "other".                                                             *)
(***************************************************************************)
FieldNames(fields) == {fields[i].name : i \in DOMAIN fields}

\* the collection a Dataset / dict of fields amounts to
AsMap(fields) ==
    [n \in FieldNames(fields) |->
        fields[CHOOSE i \in DOMAIN fields :
                  fields[i].name = n /\ \A j \in DOMAIN fields :
                                           fields[j].name = n => j <= i].val]

Named(fields, name) == <<[name |-> name, val |-> fields[1].val]>>

\* the insertion loop without the read-only test
SetEachUnguarded(w, kind, fields) ==
    [w EXCEPT !.m[kind] =
        [n \in (DOMAIN @) \cup FieldNames(fields) |->
            IF n \in FieldNames(fields) THEN AsMap(fields)[n] ELSE @[n]]]

\* for name in data: if name in collection and not self._write: raise; collection[name] = data[name]
RECURSIVE SetEach(_, _, _)
SetEach(w, kind, fields) ==
    IF ~Ok(w) \/ fields = <<>> THEN w
    ELSE LET f == Head(fields)
         IN  IF f.name \in DOMAIN w.m[kind] /\ ~w.m.write
             THEN Raise(w, ErrOverwrite)
             ELSE SetEach([w EXCEPT !.m[kind] = Put(@, f.name, f.val)], kind,
                          Tail(fields))

\* the first field renamed whenever the name is not among the fields
SetStaticmapsAlwaysRenames(w, data, name) ==
    IF ~Ok(w) THEN w
    ELSE LET isDS == data.type = "Dataset"
             isDA == data.type = "DataArray"
             names == FieldNames(data.fields)
         IN  IF name = None /\ ~(isDA /\ data.name # None) /\ ~isDS
             THEN Raise(w, ErrNameRequired)
             ELSE LET nm == IF name = None /\ isDA THEN data.name ELSE name
                      fields == IF isDS /\ name # None
                                THEN IF name \notin names
                                     THEN Named(data.fields, name)
                                     ELSE SelectSeq(data.fields,
                                                    LAMBDA f : f.name = name)
                                ELSE IF isDS THEN data.fields
                                ELSE Named(data.fields, nm)
                  IN  IF w.m.staticmaps = EmptyMap
                      THEN IF ~(isDS \/ isDA) THEN Raise(w, ErrFirstMap)
                           ELSE [w EXCEPT !.m.staticmaps = AsMap(fields)]
                      ELSE IF data.type = "ndarray" /\ ~data.fits
                           THEN Raise(w, ErrShape)
                           ELSE SetEach(w, "staticmaps", fields)

\* Model.set_staticmaps(data, name)
SetStaticmaps(w, data, name) ==
    IF ~Ok(w) THEN w
    ELSE LET isDS == data.type = "Dataset"
             isDA == data.type = "DataArray"
             names == FieldNames(data.fields)
         IN  IF name = None /\ ~(isDA /\ data.name # None) /\ ~isDS
             THEN Raise(w, ErrNameRequired)
             ELSE IF name # None /\ isDS /\ Len(data.fields) # 1 /\ name \notin names
             THEN Raise(w, ErrNameNotFound)
             ELSE LET nm == IF name = None /\ isDA THEN data.name ELSE name
                      fields == IF isDS /\ name # None
                                THEN IF name \notin names
                                     THEN Named(data.fields, name)      \* rename_vars
                                     ELSE SelectSeq(data.fields,
                                                    LAMBDA f : f.name = name)
                                ELSE IF isDS THEN data.fields
                                ELSE Named(data.fields, nm)
                  IN  IF w.m.staticmaps = EmptyMap
                      THEN IF ~(isDS \/ isDA) THEN Raise(w, ErrFirstMap)
                           ELSE [w EXCEPT !.m.staticmaps = AsMap(fields)]
                      ELSE IF data.type = "ndarray" /\ ~data.fits
                           THEN Raise(w, ErrShape)
                           ELSE SetEach(w, "staticmaps", fields)

DictKinds == {"forcing", "states", "results"}

\* Model.set_forcing / set_states / set_results (data, name)
SetDict(w, kind, data, name) ==
    IF ~Ok(w) THEN w
    ELSE IF data.type \notin {"DataArray", "Dataset"} THEN Raise(w, ErrDataType)
    ELSE IF data.type = "DataArray"
         THEN IF data.name = None /\ name = None THEN Raise(w, ErrNameRequired)
              ELSE SetEach(w, kind,
                           Named(data.fields, IF name # None THEN name ELSE data.name))
         ELSE SetEach(w, kind, data.fields)

\* Model.read_forcing / read_states / read_results: reset in read-only mode,
\* then the subclass loads what root holds
ReadDict(w, kind) ==
    IF ~Ok(w) THEN w
    ELSE LET w1 == IF ~w.m.write THEN [w EXCEPT !.m[kind] = EmptyMap] ELSE w
             w2 == RootProp(Event(w1, "read_" \o kind, <<>>, EmptyMap))
         IN  IF ~Ok(w2) THEN w2
             ELSE [w2 EXCEPT !.m[kind] = Loaded(@, w2.d.dicts[w2.m.root][kind])]

\* the read made whenever the collection is empty, whatever the mode
DictPropIgnoresMode(w, kind) ==
    IF ~Ok(w) THEN w
    ELSE IF w.m[kind] = EmptyMap THEN ReadDict(w, kind) ELSE w

\* Model.forcing / states / results property: lazy read when empty and readable
DictProp(w, kind) ==
    IF ~Ok(w) THEN w
    ELSE IF w.m[kind] = EmptyMap /\ w.m.read THEN ReadDict(w, kind) ELSE w

\* Model.write_staticgeoms: refused in read-only mode, else the subclass writes to root
WriteStaticgeoms(w) ==
    IF ~Ok(w) THEN w
    ELSE LET w0 == Event(w, "write_staticgeoms", <<>>, EmptyMap)
         IN  IF ~w0.m.write THEN Raise(w0, ErrReadOnly)
             ELSE LET w1 == RootProp(w0)
                  IN  IF ~Ok(w1) THEN w1
                      ELSE IF w1.m.root \notin w1.d.dirs THEN Raise(w1, ErrNoDir)
                      ELSE [w1 EXCEPT !.d.geoms[w1.m.root] = w1.m.staticgeoms]

\* Model.write_forcing / write_states / write_results
WriteDict(w, kind) ==
    IF ~Ok(w) THEN w
    ELSE LET w0 == Event(w, "write_" \o kind, <<>>, EmptyMap)
         IN  IF ~w0.m.write THEN Raise(w0, ErrReadOnly)
             ELSE LET w1 == RootProp(w0)
                  IN  IF ~Ok(w1) THEN w1
                      ELSE IF w1.m.root \notin w1.d.dirs THEN Raise(w1, ErrNoDir)
                      ELSE [w1 EXCEPT !.d.dicts[w1.m.root][kind] = w1.m[kind]]

\* Model.region property: the world after evaluating it (it reads the
\* staticgeoms property, and the staticmaps property when no "region" geom)
RegionProp(w) ==
    IF ~Ok(w) THEN w
    ELSE LET w1 == StaticgeomsProp(w)
         IN  IF ~Ok(w1) THEN w1
             ELSE IF "region" \in DOMAIN w1.m.staticgeoms THEN w1
             ELSE StaticmapsProp(w1)

\* the region test left out
RegionIsNoneSkipped(w) == FALSE

\* Model.region property: is the value it returns None, in a world it was evaluated in
RegionIsNone(w) ==
    ~("region" \in DOMAIN w.m.staticgeoms) /\ w.m.staticmaps = EmptyMap

\* Model.read
Read(w) ==
    IF ~Ok(w) THEN w
    ELSE ReadStaticmaps(ReadConfig(Event(w, "read", <<>>, EmptyMap)))

\* Model.write
Write(w) ==
    IF ~Ok(w) THEN w
    ELSE WriteStaticmaps(WriteConfig(Event(w, "write", <<>>, EmptyMap), EmptyMap))

\* the write pass made whatever the flag
WritePassUnconditional(w, write) == Write(w)

\* if write: self.write()
WritePass(w, write) == IF write THEN Write(w) ELSE w

(***************************************************************************)
(* Method resolver and option validator.  An option mapping is a sequence  *)
(* of entries [key, kw] with distinct keys (a dict in insertion order).    *)
(***************************************************************************)
\* getattr(self, m, None): evaluating a property runs its getter
GetAttr(w, m) ==
    IF ~Ok(w) THEN w
    ELSE IF m = <<"config">> THEN ConfigProp(w)
    ELSE IF m = <<"staticmaps">> THEN StaticmapsProp(w)
    ELSE w

\* hasattr in place of callable(getattr(...))
IsCallableAnyAttribute(m) == m \in Methods \cup Properties

IsCallable(m) == m \in Methods

HasAttr(m) == m \in Methods \cup Properties

\* the canonical method name of an option key
Canonical(key) == Strip(key)

\* the test that selects the deprecation error for a name that is not callable
Deprecated(m) == ~HasAttr(m) /\ HasAttr(SetupName(m))

\* Model._check_get_opt, the body of the loop for one key
CheckKey(w, key) ==
    IF ~Ok(w) THEN w
    ELSE LET m == Canonical(key)
             w1 == GetAttr(w, m)
         IN  IF ~Ok(w1) \/ IsCallable(m) THEN w1
             ELSE LET w2 == GetAttr(w1, m)      \* hasattr(self, m)
                  IN  IF ~Ok(w2) THEN w2
                      ELSE IF Deprecated(m) THEN Raise(w2, ErrDeprecated)
                      ELSE Raise(w2, ErrNoMethod)

\* Model._check_get_opt
RECURSIVE CheckGetOpt(_, _)
CheckGetOpt(w, o) ==
    IF o = <<>> THEN w
    ELSE CheckGetOpt(CheckKey(w, Head(o).key), Tail(o))

\* dict.pop(key, {}): the value
PopValue(o, key) ==
    IF \E i \in DOMAIN o : o[i].key = key
    THEN o[CHOOSE i \in DOMAIN o : o[i].key = key].kw
    ELSE EmptyMap

\* dict.get in place of dict.pop: the key stays in the mapping
PopRestKeepsKey(o, key) == o

\* every entry whose canonical method name is the key removed with it
PopRestByCanonical(o, key) ==
    LET Kept(e) == Canonical(e.key) # key
    IN  SelectSeq(o, Kept)

\* dict.pop(key, {}): the mapping left
PopRest(o, key) ==
    IF \E i \in DOMAIN o : o[i].key = key
    THEN RemoveAt(o, CHOOSE i \in DOMAIN o : o[i].key = key)
    ELSE o

HasKey(o, key) == \E i \in DOMAIN o : o[i].key = key

(***************************************************************************)
(* Dispatch                                                                *)
(***************************************************************************)
\* what a call of the subclass's setup_basemaps may do
Outcomes(method) ==
    IF Strip(method) = setup_basemaps THEN {"returns", "raises"} ELSE {"returns"}

\* setup_basemaps(region, res, ...) of the subclass: it needs region, and on
\* success stores the region geometry through set_staticgeoms
SetupBasemaps(w, kw, outcome) ==
    IF ~Ok(w) THEN w
    ELSE IF kw_region \notin DOMAIN kw THEN Raise(w, ErrTypeError)
    ELSE IF outcome = "raises" THEN Raise(w, ErrSetup)
    ELSE SetStaticgeoms(w, kw[kw_region], "region")

\* the method's exception caught and replaced by one of the dispatcher's own
RunLogMethodWraps(w, method, kw, outcome) ==
    IF ~Ok(w) THEN w
    ELSE LET m == Strip(method)
             w1 == Event(w, "call", m, kw)
             r == IF m = setup_config THEN SetupConfig(w1, kw)
                  ELSE IF m = setup_basemaps THEN SetupBasemaps(w1, kw, outcome)
                  ELSE WriteConfig(w1, kw)
         IN  IF Ok(r) THEN r ELSE Raise(r, "RuntimeError: setup method failed")

\* Model._run_log_method(method, **kwargs): strip, look up, call
RunLogMethod(w, method, kw, outcome) ==
    IF ~Ok(w) THEN w
    ELSE LET m == Strip(method)
             w1 == Event(w, "call", m, kw)
         IN  IF m = setup_config THEN SetupConfig(w1, kw)
             ELSE IF m = setup_basemaps THEN SetupBasemaps(w1, kw, outcome)
             ELSE IF m = write_config THEN WriteConfig(w1, kw)
             ELSE Raise(w, "AttributeError")

\* the loop walking the mapping backwards
LoopEntryReversed(o, i) == o[Len(o) + 1 - i]

\* for method in opt: the entry the loop visits at its i-th iteration
LoopEntry(o, i) == o[i]

\* res injected without the "is not None" test
BasemapsKwargsAlwaysRes(kw, region, res) == Put(Put(kw, kw_region, region), kw_res, res)

\* kwargs.update(region=region); if res is not None: kwargs.update(res=res)
BasemapsKwargs(kw, region, res) ==
    LET k1 == Put(kw, kw_region, region)
    IN  IF res # None THEN Put(k1, kw_res, res) ELSE k1

(***************************************************************************)
(* Inputs                                                                  *)
(***************************************************************************)
key_basemaps2 == <<"setup_", "basemaps", "2">>
key_2config == <<"2", "setup_", "config">>
key_unknown == <<"unknown_method">>
key_basemaps == <<"basemaps">>
key_config == <<"config">>
key_staticmaps == <<"staticmaps">>

OptKeys == {setup_config, setup_basemaps, write_config, key_basemaps2, key_2config,
            key_unknown, key_basemaps, key_config, key_staticmaps}

CfDict == Put(EmptyMap, <<"a", ".", "b">>, "x")

CallerBasemaps ==
    Put(Put(Put(EmptyMap, kw_region, "R0"), kw_res, "r0"), kw_other, "h")

KwFor(key) ==
    IF key = setup_config THEN {EmptyMap, CfDict}
    ELSE IF key = setup_basemaps THEN {EmptyMap, CallerBasemaps}
    ELSE IF key = write_config THEN {EmptyMap, Put(EmptyMap, kw_config_root, RootB)}
    ELSE IF key = key_basemaps2 THEN {Put(EmptyMap, kw_region, "R0")}
    ELSE {EmptyMap}

Entries == UNION {{[key |-> k, kw |-> x] : x \in KwFor(k)} : k \in OptKeys}

DistinctKeys(o) == \A i, j \in DOMAIN o : o[i].key = o[j].key => i = j

OptMappings ==
    {o \in UNION {[1..n -> Entries] : n \in 0..MaxOpt} : DistinctKeys(o)}

Regions == {"R1"}
Resolutions == {None, "r1"}
OutputRoots == {None, RootB}

(***************************************************************************)
(* State                                                                   *)
(***************************************************************************)
NoArgs == [region |-> None, res |-> None, write |-> FALSE, model_out |-> None]

ConfigOnDisk == Put(EmptyMap, <<"a">>, Leaf("d"))

MapsOnDisk == Put(EmptyMap, "dem", "v0")

GeomsOnDisk == Put(EmptyMap, "region", "R0")

NoComponents == [r \in {RootA, RootB} |-> EmptyMap]

NoDicts == [r \in {RootA, RootB} |-> [k \in DictKinds |-> EmptyMap]]

ForcingOnDisk == Put(EmptyMap, "p", "v0")

\* the file system before the model is constructed
BareDisk ==
    [dirs |-> {}, files |-> [r \in {RootA, RootB, DataDir} |-> NoFile],
     maps |-> NoComponents, geoms |-> NoComponents, dicts |-> NoDicts]

EmptyRootDisk == [BareDisk EXCEPT !.dirs = {RootA}]

FullDisk ==
    [dirs |-> {RootA},
     files |-> [r \in {RootA, RootB, DataDir} |->
                   IF r = RootB THEN NoFile ELSE File(ConfigOnDisk)],
     maps |-> [NoComponents EXCEPT ![RootA] = MapsOnDisk],
     geoms |-> [NoComponents EXCEPT ![RootA] = GeomsOnDisk],
     dicts |-> [NoDicts EXCEPT ![RootA]["forcing"] = ForcingOnDisk]]

Disks == {BareDisk, EmptyRootDisk, FullDisk}

\* Model.__init__ before set_root (placeholders are assigned after it)
Blank ==
    [root |-> None, read |-> FALSE, write |-> FALSE, config |-> EmptyMap,
     staticmaps |-> EmptyMap, staticgeoms |-> EmptyMap, forcing |-> EmptyMap,
     states |-> EmptyMap, results |-> EmptyMap]

\* Model.__init__(root, mode)
Construct(d, root, mode) ==
    SetRoot([m |-> Blank, d |-> d, tr |-> <<>>, err |-> NoErr], root, mode)

\* the world a build / update call starts in; the event log is per call
World == [m |-> model, d |-> disk, tr |-> trace, err |-> NoErr]

Fresh == [m |-> model, d |-> disk, tr |-> <<>>, err |-> NoErr]

\* the outcome of a step: the world it leaves, and where the run goes next
Commit(w, next) ==
    /\ model' = w.m
    /\ disk' = w.d
    /\ trace' = w.tr
    /\ err' = w.err
    /\ at' = pc
    /\ pc' = IF Ok(w) THEN next ELSE "failed"

Init ==
    /\ \E d \in Disks, root \in {None, RootA}, mode \in Modes :
          LET w == Construct(d, root, mode)
          IN  /\ Ok(w)
              /\ model = w.m
              /\ disk = w.d
    /\ opt = <<>>
    /\ opt0 = <<>>
    /\ args = NoArgs
    /\ op = "none"
    /\ pc = "idle"
    /\ at = "idle"
    /\ idx = 1
    /\ err = NoErr
    /\ trace = <<>>
    /\ pre = [m |-> Blank, d |-> BareDisk]
    /\ runs = 0

\* a first call passes any mapping; a later call on the same model passes the
\* mapping object of the call before it, as that call left it
CanStart(o) ==
    \/ pc = "idle"
    \/ pc = "done" /\ runs < MaxRuns /\ o = opt

(***************************************************************************)
(* Model.build                                                             *)
(***************************************************************************)
\* opt = self._check_get_opt(opt)
Build(region, res, write, o) ==
    /\ CanStart(o)
    /\ runs' = runs + 1
    /\ op' = "build"
    /\ args' = [region |-> region, res |-> res, write |-> write, model_out |-> None]
    /\ opt0' = o
    /\ opt' = o
    /\ pre' = [m |-> model, d |-> disk]
    /\ idx' = 1
    /\ Commit(CheckGetOpt(Fresh, o), "config")

\* self._run_log_method("setup_config", **opt.pop("setup_config", {}))
BuildSetupConfig ==
    /\ pc = "config"
    /\ op = "build"
    /\ opt' = PopRest(opt, setup_config)
    /\ Commit(RunLogMethod(World, setup_config, PopValue(opt, setup_config),
                           "returns"),
              "basemaps")
    /\ UNCHANGED <<opt0, args, op, idx, pre, runs>>

\* kwargs = opt.pop("setup_basemaps", {}) ... self._run_log_method("setup_basemaps", **kwargs)
BuildSetupBasemaps(outcome) ==
    /\ pc = "basemaps"
    /\ op = "build"
    /\ opt' = PopRest(opt, setup_basemaps)
    /\ Commit(RunLogMethod(World, setup_basemaps,
                           BasemapsKwargs(PopValue(opt, setup_basemaps),
                                          args.region, args.res),
                           outcome),
              "loop")
    /\ UNCHANGED <<opt0, args, op, idx, pre, runs>>

\* for method in opt: self._run_log_method(method, **opt[method])
BuildLoop(outcome) ==
    /\ pc = "loop"
    /\ op = "build"
    /\ idx <= Len(opt)
    /\ outcome \in Outcomes(LoopEntry(opt, idx).key)
    /\ idx' = idx + 1
    /\ Commit(RunLogMethod(World, LoopEntry(opt, idx).key, LoopEntry(opt, idx).kw,
                           outcome),
              "loop")
    /\ UNCHANGED <<opt, opt0, args, op, pre, runs>>

\* if write: self.write()
BuildWrite ==
    /\ pc = "loop"
    /\ op = "build"
    /\ idx > Len(opt)
    /\ Commit(WritePass(World, args.write), "done")
    /\ UNCHANGED <<opt, opt0, args, op, idx, pre, runs>>

(***************************************************************************)
(* Model.update                                                            *)
(***************************************************************************)
\* opt = self._check_get_opt(opt)
Update(model_out, write, o) ==
    /\ CanStart(o)
    /\ runs' = runs + 1
    /\ op' = "update"
    /\ args' = [region |-> None, res |-> None, write |-> write,
                model_out |-> model_out]
    /\ opt0' = o
    /\ opt' = o
    /\ pre' = [m |-> model, d |-> disk]
    /\ idx' = 1
    /\ Commit(CheckGetOpt(Fresh, o), "mode")

\* the model_out test made after the read pass
ReadCurrentModelChecksLate(w, model_out) ==
    IF w.m.write THEN w
    ELSE IF model_out = None THEN Raise(Read(w), ErrModelOut)
    ELSE SetRoot(Read(w), model_out, "w")

\* the re-root made before the read pass
ReadCurrentModelRerootsFirst(w, model_out) ==
    IF w.m.write THEN w
    ELSE IF model_out = None THEN Raise(w, ErrModelOut)
    ELSE Read(SetRoot(w, model_out, "w"))

\* the read pass and re-root made without the "if not self._write" test
ReadCurrentModelAlwaysReads(w, model_out) ==
    IF model_out = None THEN Raise(w, ErrModelOut)
    ELSE SetRoot(Read(w), model_out, "w")

\* a writable model re-rooted at model_out when one is given
ReadCurrentModelRerootsWritable(w, model_out) ==
    IF w.m.write
    THEN IF model_out = None THEN w ELSE SetRoot(w, model_out, "w")
    ELSE IF model_out = None THEN Raise(w, ErrModelOut)
    ELSE SetRoot(Read(w), model_out, "w")

\* if not self._write: (model_out required) self.read(); self.set_root(model_out, mode="w")
ReadCurrentModel(w, model_out) ==
    IF w.m.write THEN w
    ELSE IF model_out = None THEN Raise(w, ErrModelOut)
    ELSE SetRoot(Read(w), model_out, "w")

UpdateRead ==
    /\ pc = "mode"
    /\ Commit(ReadCurrentModel(World, args.model_out), "region")
    /\ UNCHANGED <<opt, opt0, args, op, idx, pre, runs>>

\* if self.region is None: raise ...; if "setup_basemaps" in opt: opt.pop(...)
UpdateRegion ==
    /\ pc = "region"
    /\ LET w == RegionProp(World)
       IN  IF Ok(w) /\ RegionIsNone(w)
           THEN Commit(Raise(w, ErrNoRegion), "config") /\ opt' = opt
           ELSE Commit(w, "config") /\ opt' = PopRest(opt, setup_basemaps)
    /\ UNCHANGED <<opt0, args, op, idx, pre, runs>>

\* self._run_log_method("setup_config", **opt.pop("setup_config", {}))
UpdateSetupConfig ==
    /\ pc = "config"
    /\ op = "update"
    /\ opt' = PopRest(opt, setup_config)
    /\ Commit(RunLogMethod(World, setup_config, PopValue(opt, setup_config),
                           "returns"),
              "loop")
    /\ UNCHANGED <<opt0, args, op, idx, pre, runs>>

\* for method in opt: self._run_log_method(method, **opt[method])
UpdateLoop(outcome) ==
    /\ pc = "loop"
    /\ op = "update"
    /\ idx <= Len(opt)
    /\ outcome \in Outcomes(LoopEntry(opt, idx).key)
    /\ idx' = idx + 1
    /\ Commit(RunLogMethod(World, LoopEntry(opt, idx).key, LoopEntry(opt, idx).kw,
                           outcome),
              "loop")
    /\ UNCHANGED <<opt, opt0, args, op, pre, runs>>

\* if write: self.write()
UpdateWrite ==
    /\ pc = "loop"
    /\ op = "update"
    /\ idx > Len(opt)
    /\ Commit(WritePass(World, args.write), "done")
    /\ UNCHANGED <<opt, opt0, args, op, idx, pre, runs>>

\* the mappings a caller may pass now
Passable == IF pc = "idle" THEN OptMappings ELSE {opt}

Next ==
    \/ /\ pc \in {"idle", "done"}
       /\ \E region \in Regions, res \in Resolutions, write \in BOOLEAN,
             o \in Passable : Build(region, res, write, o)
    \/ BuildSetupConfig
    \/ \E outcome \in {"returns", "raises"} : BuildSetupBasemaps(outcome)
    \/ \E outcome \in {"returns", "raises"} : BuildLoop(outcome)
    \/ BuildWrite
    \/ /\ pc \in {"idle", "done"}
       /\ \E model_out \in OutputRoots, write \in BOOLEAN, o \in Passable :
             Update(model_out, write, o)
    \/ UpdateRead
    \/ UpdateRegion
    \/ UpdateSetupConfig
    \/ \E outcome \in {"returns", "raises"} : UpdateLoop(outcome)
    \/ UpdateWrite

Spec == Init /\ [][Next]_vars

(***************************************************************************)
(* The model's methods called directly, one call per step, on a model that *)
(* no build / update has run on yet; a build or update may follow.         *)
(***************************************************************************)
AnyModes == Modes \cup {"a"}

ConfigKeys == {<<"a">>, <<"a", ".", "b">>, <<"a", ".", "b", ".", "c">>}

ConfigValues == {"x", "y"}

DS(fields) == [type |-> "Dataset", name |-> None, fields |-> fields, fits |-> TRUE]

DA(name, val) ==
    [type |-> "DataArray", name |-> name, fields |-> <<[name |-> name, val |-> val]>>,
     fits |-> TRUE]

ND(fits) ==
    [type |-> "ndarray", name |-> None, fields |-> <<[name |-> None, val |-> "v3"]>>,
     fits |-> fits]

Other == [type |-> "other", name |-> None, fields |-> <<>>, fits |-> TRUE]

MapPayloads ==
    {DS(<<[name |-> "dem", val |-> "v1"]>>),
     DS(<<[name |-> "slope", val |-> "v1"], [name |-> "dem", val |-> "v2"]>>),
     DA("dem", "v2"), DA(None, "v1"), ND(TRUE), ND(FALSE)}

MapNames == {None, "dem", "elevtn"}

GeomPayloads == {"R2", NotGeom}

GeomNames == {"region", "basins"}

DictPayloads ==
    {DA("p", "v1"), DA("p", "v2"), DA(None, "v1"),
     DS(<<[name |-> "q", val |-> "v1"], [name |-> "p", val |-> "v2"]>>),
     DS(<<[name |-> "q", val |-> "v2"]>>), Other}

DictNames == {None, "p"}

\* the kinds set directly (set_results is set_states with another collection)
SetDictKinds == {"forcing", "states"}

Kinds == {"staticmaps", "staticgeoms"} \cup DictKinds

\* a direct call returns or raises to its caller, who keeps the model
Return(w) ==
    /\ model' = w.m
    /\ disk' = w.d
    /\ trace' = w.tr
    /\ err' = w.err
    /\ at' = pc
    /\ pc' = pc

CanCall == pc = "idle" /\ idx <= MaxCalls

Called(name, a) ==
    /\ op' = name
    /\ args' = a
    /\ pre' = [m |-> model, d |-> disk]
    /\ idx' = idx + 1
    /\ UNCHANGED <<opt, opt0, runs>>

\* model.set_root(root, mode)
CallSetRoot(root, mode) ==
    /\ CanCall
    /\ Called("set_root", [root |-> root, mode |-> mode])
    /\ Return(SetRoot(Fresh, root, mode))

\* model.set_config(key, value)
CallSetConfig(key, value) ==
    /\ CanCall
    /\ Called("set_config", [key |-> key, value |-> value])
    /\ Return(SetConfig(Fresh, key, value))

\* model.setup_config(**cfdict)
CallSetupConfig(cfdict) ==
    /\ CanCall
    /\ Called("setup_config", [cfdict |-> cfdict])
    /\ Return(SetupConfig(Fresh, cfdict))

\* model.get_config(key)
CallGetConfig(key) ==
    /\ CanCall
    /\ Called("get_config", [key |-> key, result |-> GetConfig(model.config, key, None)])
    /\ Return(Fresh)

\* model.set_staticmaps(data, name)
CallSetStaticmaps(data, name) ==
    /\ CanCall
    /\ Called("set_staticmaps", [kind |-> "staticmaps", data |-> data, name |-> name])
    /\ Return(SetStaticmaps(Fresh, data, name))

\* model.set_staticgeoms(geom, name)
CallSetStaticgeoms(geom, name) ==
    /\ CanCall
    /\ Called("set_staticgeoms", [kind |-> "staticgeoms", data |-> geom, name |-> name])
    /\ Return(SetStaticgeoms(Fresh, geom, name))

\* model.set_forcing / set_states / set_results (data, name)
CallSetDict(kind, data, name) ==
    /\ CanCall
    /\ Called("set_" \o kind, [kind |-> kind, data |-> data, name |-> name])
    /\ Return(SetDict(Fresh, kind, data, name))

\* model.staticmaps
CallGetStaticmaps ==
    /\ CanCall
    /\ Called("staticmaps", [kind |-> "staticmaps"])
    /\ Return(StaticmapsProp(Fresh))

\* model.staticgeoms
CallGetStaticgeoms ==
    /\ CanCall
    /\ Called("staticgeoms", [kind |-> "staticgeoms"])
    /\ Return(StaticgeomsProp(Fresh))

\* model.forcing / model.states / model.results
CallGetDict(kind) ==
    /\ CanCall
    /\ Called(kind, [kind |-> kind])
    /\ Return(DictProp(Fresh, kind))

\* model.write_config()
CallWriteConfig ==
    /\ CanCall
    /\ Called("write_config", [kind |-> "config"])
    /\ Return(WriteConfig(Fresh, EmptyMap))

\* model.write_staticmaps() / model.write_staticgeoms()
CallWriteComponent(kind) ==
    /\ CanCall
    /\ Called("write_" \o kind, [kind |-> kind])
    /\ Return(IF kind = "staticmaps" THEN WriteStaticmaps(Fresh)
              ELSE WriteStaticgeoms(Fresh))

\* model.write_forcing() / write_states() / write_results()
CallWriteDict(kind) ==
    /\ CanCall
    /\ Called("write_" \o kind, [kind |-> kind])
    /\ Return(WriteDict(Fresh, kind))

\* the option mappings of the build / update that follows direct calls
ApiMappings ==
    {<<[key |-> write_config, kw |-> EmptyMap],
       [key |-> key_basemaps2, kw |-> Put(EmptyMap, kw_region, "R0")]>>}

ApiNext ==
    \/ \E root \in {None, RootA, RootB}, mode \in AnyModes : CallSetRoot(root, mode)
    \/ \E key \in ConfigKeys, value \in ConfigValues : CallSetConfig(key, value)
    \/ \E cfdict \in {EmptyMap, CfDict} : CallSetupConfig(cfdict)
    \/ \E key \in ConfigKeys : CallGetConfig(key)
    \/ \E data \in MapPayloads, name \in MapNames : CallSetStaticmaps(data, name)
    \/ \E geom \in GeomPayloads, name \in GeomNames : CallSetStaticgeoms(geom, name)
    \/ \E kind \in SetDictKinds, data \in DictPayloads, name \in DictNames :
          CallSetDict(kind, data, name)
    \/ CallGetStaticmaps
    \/ CallGetStaticgeoms
    \/ \E kind \in DictKinds : CallGetDict(kind)
    \/ CallWriteConfig
    \/ \E kind \in {"staticmaps", "staticgeoms"} : CallWriteComponent(kind)
    \/ \E kind \in DictKinds : CallWriteDict(kind)
    \/ /\ pc = "idle"
       /\ \E region \in Regions, write \in BOOLEAN, o \in ApiMappings :
             Build(region, None, write, o)
    \/ BuildSetupConfig
    \/ \E outcome \in {"returns", "raises"} : BuildSetupBasemaps(outcome)
    \/ \E outcome \in {"returns", "raises"} : BuildLoop(outcome)
    \/ BuildWrite
    \/ /\ pc = "idle"
       /\ \E model_out \in OutputRoots, write \in BOOLEAN, o \in ApiMappings :
             Update(model_out, write, o)
    \/ UpdateRead
    \/ UpdateRegion
    \/ UpdateSetupConfig
    \/ \E outcome \in {"returns", "raises"} : UpdateLoop(outcome)
    \/ UpdateWrite

ApiSpec == Init /\ [][ApiNext]_vars

(***************************************************************************)
(* Model._run_log_method called with positional and keyword arguments.     *)
(***************************************************************************)
set_root == <<"set_root">>
kw_config_name == <<"config_name">>
kw_root == <<"root">>
kw_mode == <<"mode">>
kw_cfdict == <<"cfdict">>

\* inspect.Parameter.empty: the default of a parameter that declares none
Empty == "Parameter.empty"

\* inspect.signature(func).parameters: the declared parameters, in order
Signature(m) ==
    IF m = set_root
    THEN <<[name |-> kw_root, default |-> Empty], [name |-> kw_mode, default |-> "w"]>>
    ELSE IF m = write_config
    THEN <<[name |-> kw_config_name, default |-> None],
           [name |-> kw_config_root, default |-> None]>>
    ELSE <<[name |-> kw_cfdict, default |-> Empty]>>      \* setup_config(**cfdict)

\* the loop over the parameters: the records logger.debug is given
RECURSIVE LogRecords(_, _, _, _)
LogRecords(sig, i, pos, kw) ==
    IF i > Len(sig) THEN <<>>
    ELSE LET k == sig[i].name
             v == IF k \in DOMAIN kw THEN kw[k] ELSE sig[i].default
         IN  IF v # Empty
             THEN <<[k |-> k, v |-> v]>> \o LogRecords(sig, i + 1, pos, kw)
             ELSE IF Len(pos) >= i
                  THEN <<[k |-> k, v |-> pos[i]]>> \o LogRecords(sig, i + 1, pos, kw)
                  ELSE LogRecords(sig, i + 1, pos, kw)

ParamNames(sig) == {sig[i].name : i \in DOMAIN sig}

\* func(*args, **kwargs) of a method without * or ** parameters: can the
\* arguments be bound to the declared parameters
Binds(sig, pos, kw) ==
    /\ Len(pos) <= Len(sig)
    /\ DOMAIN kw \subseteq ParamNames(sig)
    /\ \A i \in 1..Len(pos) : sig[i].name \notin DOMAIN kw
    /\ \A i \in DOMAIN sig :
          sig[i].default = Empty => (i <= Len(pos) \/ sig[i].name \in DOMAIN kw)

\* the value a declared parameter is bound to
Bound(sig, pos, kw, k) ==
    LET i == CHOOSE j \in DOMAIN sig : sig[j].name = k
    IN  IF i <= Len(pos) THEN pos[i]
        ELSE IF k \in DOMAIN kw THEN kw[k]
        ELSE sig[i].default

\* Model._run_log_method(method, *args, **kwargs): the call made after logging
RunLogMethodArgs(w, method, pos, kw) ==
    IF ~Ok(w) THEN w
    ELSE LET m == Strip(method)
             sig == Signature(m)
             w1 == Event(w, "call", m, kw)
         IN  IF m = setup_config
             THEN IF pos # <<>> THEN Raise(w1, ErrTypeError) ELSE SetupConfig(w1, kw)
             ELSE IF ~Binds(sig, pos, kw) THEN Raise(w1, ErrTypeError)
             ELSE IF m = set_root
                  THEN SetRoot(w1, Bound(sig, pos, kw, kw_root),
                               Bound(sig, pos, kw, kw_mode))
                  ELSE LET config_root == Bound(sig, pos, kw, kw_config_root)
                       IN  WriteConfig(w1, IF config_root = None THEN EmptyMap
                                           ELSE Put(EmptyMap, kw_config_root,
                                                    config_root))

LogMethods == {set_root, write_config, setup_config, <<"set_root", "2">>}

LogPositional == {<<>>, <<RootB>>, <<RootB, "r">>, <<None, RootB>>}

LogKeywords ==
    {EmptyMap, Put(EmptyMap, kw_mode, "r+"), Put(EmptyMap, kw_config_root, RootB),
     Put(Put(EmptyMap, kw_root, RootA), kw_mode, "r"), CfDict}

\* model._run_log_method(method, *pos, **kw)
CallRunLogMethod(method, pos, kw) ==
    /\ CanCall
    /\ Called("_run_log_method",
              [method |-> method, pos |-> pos, kw |-> kw,
               logged |-> LogRecords(Signature(Strip(method)), 1, pos, kw)])
    /\ Return(RunLogMethodArgs(Fresh, method, pos, kw))

LogNext ==
    \E method \in LogMethods, pos \in LogPositional, kw \in LogKeywords :
       CallRunLogMethod(method, pos, kw)

LogSpec == Init /\ [][LogNext]_vars

(***************************************************************************)
(* Properties                                                              *)
(***************************************************************************)
IsCall(e) == e.ev = "call"

\* the setup calls of the current run, in order
Calls == SelectSeq(trace, IsCall)

\* a run is under way or over, and validation accepted its mapping
Validated == op # "none" /\ ~(pc = "failed" /\ at \in {"idle", "done"})

\* the keyword arguments the caller stored under a key, {} when the key is absent
CallerKw(key) ==
    IF \E i \in DOMAIN opt0 : opt0[i].key = key
    THEN opt0[CHOOSE i \in DOMAIN opt0 : opt0[i].key = key].kw
    ELSE EmptyMap

NotForced(e) == e.key \notin {setup_config, setup_basemaps}

\* the entries of the supplied mapping other than the two forced keys, in order
Remaining == SelectSeq(opt0, NotForced)

\* C1: for every accepted mapping, whatever its key order, the first thing build
\* does is call setup_config (with the caller's keywords, or none when the key
\* is absent), the second call is setup_basemaps, and every later call is an
\* entry other than the two forced keys; a build that gets past the forced
\* steps has made both calls.
C1_ForcedOrder ==
    (op = "build" /\ Validated) =>
        LET c == Calls
        IN  /\ (pc \in {"basemaps", "loop", "done"} => Len(c) >= 1)
            /\ (pc \in {"loop", "done"} => Len(c) >= 2)
            /\ (Len(trace) >= 1 => IsCall(trace[1]))
            /\ (Len(c) >= 1 =>
                   c[1].m = setup_config /\ c[1].kw = CallerKw(setup_config))
            /\ (Len(c) >= 2 => c[2].m = setup_basemaps)
            /\ \A i \in 3..Len(c) :
                  \E j \in DOMAIN opt0 :
                     /\ NotForced(opt0[j])
                     /\ c[i].m = Strip(opt0[j].key)
                     /\ c[i].kw = opt0[j].kw

\* C1 witness: a build that completed on a mapping listing write_config, then
\* setup_basemaps, then setup_config with keywords
C1_Witness ==
    /\ op = "build"
    /\ pc = "done"
    /\ Len(opt0) = 3
    /\ opt0[1].key = write_config
    /\ opt0[2].key = setup_basemaps
    /\ opt0[3].key = setup_config
    /\ opt0[3].kw = CfDict
    /\ Len(Calls) = 3

\* C2: after the two forced calls build calls the remaining entries of the
\* mapping one by one in the mapping's order, each with the keywords stored
\* under its key, and a build that completes has called every one exactly once.
C2_RemainingInOrder ==
    (op = "build" /\ Validated) =>
        LET c == Calls
            n == Len(c) - 2
        IN  /\ n <= Len(Remaining)
            /\ \A i \in 1..n :
                  /\ c[i + 2].m = Strip(Remaining[i].key)
                  /\ c[i + 2].kw = Remaining[i].kw
            /\ (pc = "done" => n = Len(Remaining))

\* C2 witness: a completed build with two remaining entries of different keywords
C2_Witness ==
    /\ op = "build"
    /\ pc = "done"
    /\ Len(opt0) = 3
    /\ Len(Remaining) = 2
    /\ Remaining[1].key = write_config
    /\ Remaining[2].key = key_basemaps2
    /\ Len(Calls) = 4

\* C3: the keywords build passes to setup_basemaps are the caller's keywords
\* for that entry with region set to build's region and, only when res is not
\* null, res set to build's res; other caller keys are kept, and with a null
\* res a caller-supplied res is kept.
C3_BasemapsKeywords ==
    (op = "build" /\ Len(Calls) >= 2) =>
        LET kw == Calls[2].kw
            caller == CallerKw(setup_basemaps)
        IN  /\ DOMAIN kw = (DOMAIN caller) \cup {kw_region}
                              \cup (IF args.res # None THEN {kw_res} ELSE {})
            /\ kw[kw_region] = args.region
            /\ (args.res # None => kw[kw_res] = args.res)
            /\ \A k \in (DOMAIN caller) \ {kw_region, kw_res} : kw[k] = caller[k]
            /\ (args.res = None /\ kw_res \in DOMAIN caller =>
                   kw[kw_res] = caller[kw_res])

\* C3 witness: setup_basemaps was called in a build with a null res on an entry
\* that carried its own region, res and another keyword
C3_Witness ==
    /\ op = "build"
    /\ Len(Calls) >= 2
    /\ args.res = None
    /\ CallerKw(setup_basemaps) = CallerBasemaps

\* the canonical name as documented: the key without its trailing digits
StripTrailingOnly(key) == RStripDigits(key)

NamesMethod(key) == Strip(key) \in Methods

NamesAttribute(key) == Strip(key) \in Methods \cup Properties

HasSetupSibling(key) == SetupName(Strip(key)) \in Methods

\* the first key of the supplied mapping that is not a method, 0 when all are
FirstBad ==
    IF \E i \in DOMAIN opt0 : ~NamesMethod(opt0[i].key)
    THEN CHOOSE i \in DOMAIN opt0 :
            /\ ~NamesMethod(opt0[i].key)
            /\ \A j \in 1..(i - 1) : NamesMethod(opt0[j].key)
    ELSE 0

FailedValidation == pc = "failed" /\ at \in {"idle", "done"}

\* nothing of the pipeline proper has happened in this run
NoPipelineEvent ==
    \A i \in DOMAIN trace : trace[i].ev \notin {"call", "read", "set_root", "write"}

SameRootAndMode ==
    /\ model.root = pre.m.root
    /\ model.read = pre.m.read
    /\ model.write = pre.m.write

HasUnknownKey ==
    \E i \in DOMAIN opt0 : ~NamesMethod(opt0[i].key) /\ ~HasSetupSibling(opt0[i].key)

\* C4 as stated: a key that is neither callable nor has a setup_ sibling makes
\* build and update fail with the "has no method" ValueError before anything
\* runs, leaving the whole model unchanged.
C4_Original ==
    (op # "none" /\ HasUnknownKey) =>
        /\ FailedValidation
        /\ err = ErrNoMethod
        /\ NoPipelineEvent
        /\ model = pre.m

\* C4 amended: with such a key build and update fail in validation, before any
\* setup call, read pass, re-root or write pass, with root and mode unchanged.
\* The error is the "has no method" ValueError, and the model is untouched,
\* when the first key that is not a method names no attribute at all; when
\* that first key is a deprecated short name the deprecation error is raised
\* instead, and when it names a property validation evaluates the property,
\* which may load config or maps from file (or raise) before the error.
C4_Amended ==
    (op # "none" /\ HasUnknownKey) =>
        /\ FailedValidation
        /\ NoPipelineEvent
        /\ SameRootAndMode
        /\ err \in {ErrNoMethod, ErrDeprecated, ErrRootUnknown}
        /\ (err = ErrDeprecated =>
               ~NamesAttribute(opt0[FirstBad].key) /\ HasSetupSibling(opt0[FirstBad].key))
        /\ (~NamesAttribute(opt0[FirstBad].key) /\ ~HasSetupSibling(opt0[FirstBad].key) =>
               err = ErrNoMethod)
        /\ (~NamesAttribute(opt0[FirstBad].key) => model = pre.m /\ trace = <<>>)

\* C4 witness: an update failed with "has no method" on a mapping whose second
\* key is unknown_method, after a valid first key
C4_Witness ==
    /\ op = "update"
    /\ pc = "failed"
    /\ err = ErrNoMethod
    /\ Len(opt0) >= 2
    /\ opt0[1].key = setup_config
    /\ opt0[2].key = key_unknown

\* C5: when the first key that fails validation has a canonical name that is
\* not callable while setup_<name> is, validation fails with the deprecation
\* error, also when the name exists on the model as a non-callable attribute
\* ("config" with setup_config defined).
C5_DeprecationError ==
    (op # "none" /\ FirstBad # 0 /\ HasSetupSibling(opt0[FirstBad].key)) =>
        FailedValidation /\ err = ErrDeprecated

\* C6: the canonical name is the key without its trailing digits only, so a
\* mapping with a key whose name, leading digits kept, is no method fails
\* validation.
C6_TrailingDigitsOnly ==
    (op # "none" /\ \E i \in DOMAIN opt0 : StripTrailingOnly(opt0[i].key) \notin Methods) =>
        FailedValidation

\* C7: update never calls setup_basemaps, whatever accepted mapping it is given.
C7_UpdateNeverCallsBasemaps ==
    op = "update" =>
        \A i \in DOMAIN trace : IsCall(trace[i]) => trace[i].m # setup_basemaps

\* C8: update on a model in READ mode without an output root, its mapping
\* accepted by validation, fails with the "model_out required" ValueError at
\* once: no read pass, re-root, setup call or write pass has happened, and
\* root, mode, config, components and the files are as before the call.
C8_ReadOnlyNeedsOutputRoot ==
    (op = "update" /\ Validated /\ ~pre.m.write /\ args.model_out = None) =>
        /\ trace = <<>>
        /\ model = pre.m
        /\ disk = pre.d
        /\ \/ pc = "mode"
           \/ pc = "failed" /\ at = "mode" /\ err = ErrModelOut

\* C8 witness: such an update has failed, on a mapping with entries
C8_Witness ==
    /\ op = "update"
    /\ pc = "failed"
    /\ err = ErrModelOut
    /\ pre.m.read
    /\ ~pre.m.write
    /\ Len(opt0) >= 2

\* position of the re-root in the event log, 0 when it has not happened
ReRootAt ==
    IF \E i \in DOMAIN trace : trace[i].ev = "set_root"
    THEN CHOOSE i \in DOMAIN trace :
            /\ trace[i].ev = "set_root"
            /\ \A j \in 1..(i - 1) : trace[j].ev # "set_root"
    ELSE 0

\* C9: update on a model in READ mode with an output root, its mapping
\* accepted: everything up to the re-root is the read pass, run in READ mode at
\* the original root; the re-root puts the model at the output root in pure
\* WRITE mode; every later event (setup calls, write pass) happens in WRITE
\* mode at the output root; once the run is past the read step the full read
\* pass and the re-root have happened, and the model is in WRITE mode at the
\* output root from then on, so also when update returns.
C9_ReadThenReRoot ==
    (op = "update" /\ Validated /\ ~pre.m.write /\ args.model_out # None) =>
        LET k == ReRootAt
            last == IF k = 0 THEN Len(trace) ELSE k - 1
        IN  /\ (pc = "mode" => trace = <<>>)
            /\ (trace # <<>> => trace[1].ev = "read")
            /\ \A i \in 1..last :
                  /\ trace[i].ev \in {"read", "read_config", "read_staticmaps"}
                  /\ trace[i].root = pre.m.root
                  /\ trace[i].read
                  /\ ~trace[i].write
            /\ \A i \in DOMAIN trace :
                  (k # 0 /\ i >= k) =>
                     /\ trace[i].root = args.model_out
                     /\ trace[i].write
                     /\ ~trace[i].read
                     /\ (i > k => trace[i].ev \in {"call", "write", "read_config",
                                                   "write_config", "write_staticmaps"})
            /\ (pc \in {"region", "config", "loop", "done"} \/ (pc = "failed" /\ at # "mode") =>
                   /\ k = 4
                   /\ trace[2].ev = "read_config"
                   /\ trace[3].ev = "read_staticmaps"
                   /\ model.root = args.model_out
                   /\ model.write
                   /\ ~model.read)

\* C9 witness: such an update has returned after a setup call and a write pass
C9_Witness ==
    /\ op = "update"
    /\ pc = "done"
    /\ ~pre.m.write
    /\ args.model_out = RootB
    /\ \E i \in DOMAIN trace : trace[i].ev = "write"
    /\ Len(Calls) >= 2

NoRegionInMemory ==
    /\ "region" \notin DOMAIN pre.m.staticgeoms
    /\ pre.m.staticmaps = EmptyMap

\* in a readable mode the root holds no maps and no geometries to load
NothingToLoad ==
    pre.m.read =>
        \/ pre.m.root = None
        \/ pre.d.maps[pre.m.root] = EmptyMap /\ pre.d.geoms[pre.m.root] = EmptyMap

NoCallNoWrite == \A i \in DOMAIN trace : trace[i].ev \notin {"call", "write"}

\* C10 as stated: update on a model without a "region" geometry and with no
\* maps fails with ValueError for every option mapping, before any setup call
\* and without a write pass.
C10_Original ==
    (op = "update" /\ NoRegionInMemory) =>
        /\ NoCallNoWrite
        /\ pc \in {"mode", "region", "failed"}
        /\ (pc = "failed" => err \in ValueErrors)

\* C10 amended: update on a model with no region in memory and none to load
\* (in a readable mode the root holds no maps and no geometries) fails for
\* every option mapping before any setup call and without a write pass; the
\* error is a ValueError, except that a mapping whose first key that is not a
\* method is a deprecated short name fails with the deprecation error.
C10_Amended ==
    (op = "update" /\ NoRegionInMemory /\ NothingToLoad) =>
        /\ NoCallNoWrite
        /\ pc \in {"mode", "region", "failed"}
        /\ (pc = "failed" /\ err \notin ValueErrors =>
               /\ err = ErrDeprecated
               /\ FailedValidation
               /\ ~NamesAttribute(opt0[FirstBad].key)
               /\ HasSetupSibling(opt0[FirstBad].key))
        /\ (pc = "failed" /\ Validated /\ (pre.m.write \/ args.model_out # None) /\
            ~(pre.m.read /\ pre.m.root = None) => err = ErrNoRegion)

\* C10 witness: update(opt = {"setup_basemaps": {}}) failed with "region not
\* found" on a writable model
C10_Witness ==
    /\ op = "update"
    /\ pc = "failed"
    /\ err = ErrNoRegion
    /\ pre.m.write
    /\ Len(opt0) = 1
    /\ opt0[1].key = setup_basemaps
    /\ trace = <<>>

\* number of events of one kind in the log of the current run
CountEv(ev) == Cardinality({i \in DOMAIN trace : trace[i].ev = ev})

\* update has passed its region test
PastRegion ==
    \/ pc \in {"config", "loop", "done"}
    \/ pc = "failed" /\ at \in {"config", "loop"}

\* C11: update with an empty option mapping on a model whose region test
\* passed calls setup_config once, with no keywords, and no other setup
\* method; it makes a read pass exactly when the model was not writable, and a
\* write pass exactly when the write flag is true.
C11_EmptyUpdate ==
    (op = "update" /\ opt0 = <<>> /\ PastRegion) =>
        /\ (pc = "config" => Calls = <<>>)
        /\ (pc # "config" =>
               /\ Len(Calls) = 1
               /\ Calls[1].m = setup_config
               /\ Calls[1].kw = EmptyMap)
        /\ CountEv("read") = (IF pre.m.write THEN 0 ELSE 1)
        /\ (pc \in {"config", "loop"} => CountEv("write") = 0)
        /\ (pc \in {"done", "failed"} =>
               CountEv("write") = (IF args.write THEN 1 ELSE 0))

\* C11 witness: update with an empty mapping and the write flag returned on a
\* model that was read-only
C11_Witness ==
    /\ op = "update"
    /\ opt0 = <<>>
    /\ pc = "done"
    /\ ~pre.m.write
    /\ args.write
    /\ CountEv("read") = 1
    /\ CountEv("write") = 1

\* the setup calls a run makes when none raises
ExpectedCalls == (IF op = "build" THEN 2 ELSE 1) + Len(Remaining)

\* position of the write pass in the event log
WriteAt == CHOOSE i \in DOMAIN trace : trace[i].ev = "write"

\* C12: a run makes at most one write pass, only with the write flag true and
\* only after every setup call of the run has been made and has returned; a
\* run that returns has made it exactly when the flag is true; with the flag
\* false the only write collaborator reached is write_config called as an
\* entry of the mapping.
C12_WritePass ==
    op \in {"build", "update"} =>
        /\ CountEv("write") <= 1
        /\ (CountEv("write") = 1 =>
               /\ args.write
               /\ Len(Calls) = ExpectedCalls
               /\ \A i \in DOMAIN trace : IsCall(trace[i]) => i < WriteAt
               /\ pc \in {"done", "failed"})
        /\ (pc = "done" => (CountEv("write") = 1 <=> args.write))
        /\ (~args.write =>
               /\ CountEv("write_staticmaps") = 0
               /\ \A i \in DOMAIN trace :
                     trace[i].ev = "write_config" =>
                        /\ i > 1
                        /\ IsCall(trace[i - 1])
                        /\ trace[i - 1].m = write_config)

\* C12 witness: a build with the write flag returned after three setup calls
\* and one write pass
C12_Witness ==
    /\ op = "build"
    /\ pc = "done"
    /\ args.write
    /\ Len(Calls) = 3
    /\ CountEv("write") = 1

\* the step is a setup call (not validation, read pass, region test or write pass)
CallStep ==
    \/ pc \in {"config", "basemaps"}
    \/ pc = "loop" /\ idx <= Len(opt)

\* the exceptions a setup method raises
RaisedBy(m) ==
    IF m = setup_basemaps THEN {ErrSetup, ErrTypeError, ErrOverwrite}
    ELSE IF m = setup_config THEN {ErrReadOnly, ErrRootUnknown}
    ELSE {ErrRootUnknown, ErrNoDir}

\* C13: a step in which a setup call raises ends the run there: the failing
\* call is the last one made, no write pass has been made, the error the
\* caller gets is the one the method raised, and the model in memory is the
\* one the earlier calls of the run left (the failing call itself can only
\* have loaded the config it was about to write); nothing happens after.
C13_RaisingSetupCall ==
    [][/\ (CallStep /\ pc' = "failed") =>
             /\ Len(Calls') = Len(Calls) + 1
             /\ CountEv("write")' = 0
             /\ err' \in RaisedBy(Calls'[Len(Calls')].m)
             /\ disk' = disk
             /\ [model' EXCEPT !.config = model.config] = model
             /\ (err' # ErrNoDir => model' = model)
       /\ (pc = "failed" => UNCHANGED vars)]_vars

\* C13 witness: an update failed in setup_basemaps2 after setup_config had
\* changed the config, with write_config still to be called
C13_Witness ==
    /\ op = "update"
    /\ pc = "failed"
    /\ at = "loop"
    /\ err = ErrSetup
    /\ model.config # pre.m.config
    /\ args.write
    /\ Len(Calls) = 2
    /\ ExpectedCalls = 3
    /\ CountEv("write") = 0

\* C14: a direct set_root call with a mode other than "r", "r+", "w" fails
\* with the "mode unknown" error and leaves root, read flag, write flag, the
\* rest of the model and the folders as they were.
C14_InvalidMode ==
    (op = "set_root" /\ args.mode \notin Modes) =>
        /\ err = ErrMode
        /\ model = pre.m
        /\ disk = pre.d

\* C14 witness: set_root("/B", "a") failed on a model rooted at /A
C14_Witness ==
    /\ op = "set_root"
    /\ args.mode = "a"
    /\ args.root = RootB
    /\ pre.m.root = RootA
    /\ err = ErrMode

\* C15 as stated: set_root in mode "r" succeeds when the root directory
\* exists and fails with the IOError in every other case, a null root included.
C15_Original ==
    (op = "set_root" /\ args.mode = "r") =>
        IF args.root # None /\ args.root \in pre.d.dirs
        THEN err = NoErr
        ELSE err = ErrRootNotFound

\* C15 amended: set_root in mode "r" with a root given succeeds exactly when
\* the root directory exists and fails with the IOError otherwise; with no
\* root given it succeeds, leaving the model in READ mode without a root; no
\* folder is created either way.
C15_Amended ==
    (op = "set_root" /\ args.mode = "r") =>
        /\ (args.root = None =>
               /\ err = NoErr
               /\ model.root = None
               /\ model.read
               /\ ~model.write)
        /\ (args.root # None =>
               IF args.root \in pre.d.dirs
               THEN err = NoErr
               ELSE err = ErrRootNotFound)
        /\ disk = pre.d

\* C15 witness: set_root("/B", "r") failed, /B not existing
C15_Witness ==
    /\ op = "set_root"
    /\ args.mode = "r"
    /\ args.root = RootB
    /\ RootB \notin pre.d.dirs
    /\ err = ErrRootNotFound

\* the step is a direct call of a method of the model
DirectCall == pc = "idle" /\ pc' = "idle"

RootOrModeChanged ==
    \/ model'.root # model.root
    \/ model'.read # model.read
    \/ model'.write # model.write

\* the step has logged a set_root
NewSetRoot ==
    CountEv("set_root")' > (IF pc \in {"idle", "done"} THEN 0 ELSE CountEv("set_root"))

\* C16: a set_root call repeated with the same root and mode right after
\* itself leaves root, flags and folders as the first call left them and ends
\* the same way; and every step that changes the root or a flag is a set_root:
\* a direct call, or the re-root of update's read step.
C16_SetRootOnly ==
    [][/\ (DirectCall /\ op = "set_root" /\ op' = "set_root" /\ args' = args) =>
             /\ model'.root = model.root
             /\ model'.read = model.read
             /\ model'.write = model.write
             /\ disk'.dirs = disk.dirs
             /\ err' = err
       /\ RootOrModeChanged =>
             /\ NewSetRoot
             /\ \/ DirectCall /\ op' = "set_root"
                \/ pc = "mode" /\ op = "update"]_vars

\* C16 witness: set_root("/B", "w") called twice in a row
C16_Witness ==
    /\ op = "set_root"
    /\ idx = 3
    /\ args = [root |-> RootB, mode |-> "w"]
    /\ pre.m.root = RootB
    /\ pre.m.write
    /\ ~pre.m.read
    /\ RootB \in pre.d.dirs
    /\ err = NoErr

\* C17: set_config, and setup_config with at least one key, on a model that
\* is not writable fail with the read-only error and leave the config tree
\* (and the rest of the model) unchanged; on a writable model they never fail
\* with that error.
C17_ConfigReadOnly ==
    (op \in {"set_config", "setup_config"} /\
     (op = "setup_config" => args.cfdict # EmptyMap)) =>
        IF ~pre.m.write
        THEN err = ErrReadOnly /\ model = pre.m /\ disk = pre.d
        ELSE err # ErrReadOnly

\* C17 witness: set_config failed on a read-only model whose root holds a config file
C17_Witness ==
    /\ op = "set_config"
    /\ ~pre.m.write
    /\ pre.m.root = RootA
    /\ pre.d.files[RootA].exists
    /\ err = ErrReadOnly

IsPrefix(p, q) == Len(p) <= Len(q) /\ SubSeq(q, 1, Len(p)) = p

\* the node a mapping holds at a path of keys, Leaf(None) when there is none
At(tree, path) ==
    LET branch == WalkTo(tree, SubSeq(path, 1, Len(path) - 1))
    IN  IF path[Len(path)] \in DOMAIN branch THEN branch[path[Len(path)]]
        ELSE Leaf(None)

\* C18: get_config called right after a set_config(path, value) that returned
\* gives the value when asked for the same path, and, when asked for a proper
\* prefix of the path, a nested mapping that holds the value at the rest of
\* the path; whatever the tree held before.
C18_SetThenGet ==
    [][(DirectCall /\ op = "set_config" /\ err = NoErr /\ op' = "get_config") =>
          LET set == KeyPath(args.key)
              get == KeyPath(args'.key)
          IN  /\ (get = set => args'.result = Leaf(args.value))
              /\ (IsPrefix(get, set) /\ get # set =>
                     /\ args'.result.isdict
                     /\ At(args'.result.kids,
                           SubSeq(set, Len(get) + 1, Len(set))) = Leaf(args.value))]_vars

\* C18 witness: get_config("a.b.c") returned "y" on a model whose config file
\* holds a scalar under "a"
C18_Witness ==
    /\ op = "get_config"
    /\ idx = 3
    /\ args.key = <<"a", ".", "b", ".", "c">>
    /\ args.result = Leaf("y")
    /\ model.read
    /\ model.write
    /\ model.root = RootA
    /\ disk.files[RootA] = File(ConfigOnDisk)

SetOps == {"set_staticmaps", "set_staticgeoms", "set_forcing", "set_states", "set_results"}

\* a payload carrying one value
OneValue ==
    IF args.kind = "staticgeoms" THEN args.data # NotGeom
    ELSE \/ args.data.type = "DataArray" /\ (args.name # None \/ args.data.name # None)
         \/ args.data.type = "Dataset" /\ Len(args.data.fields) = 1 /\ args.name = None

\* the name a one-value payload is set under
TargetName ==
    IF args.kind = "staticgeoms" THEN args.name
    ELSE IF args.data.type = "Dataset" THEN args.data.fields[1].name
    ELSE IF args.name # None THEN args.name
    ELSE args.data.name

TargetValue ==
    IF args.kind = "staticgeoms" THEN args.data ELSE args.data.fields[1].val

\* C19: for each of the five kinds, a set call of one value under a name the
\* collection in memory already holds succeeds on a writable model, the value
\* replaced and the other names kept, and fails on a model that is not
\* writable with the read-only IOError, the model left as it was.
C19_OverwriteByMode ==
    (op \in SetOps /\ OneValue /\ TargetName \in DOMAIN pre.m[args.kind]) =>
        IF pre.m.write
        THEN /\ err = NoErr
             /\ model = [pre.m EXCEPT ![args.kind] = Put(@, TargetName, TargetValue)]
        ELSE /\ err = ErrOverwrite
             /\ model = pre.m

\* C19 witness: set_forcing of a held name failed on a read-only model
C19_Witness ==
    /\ op = "set_forcing"
    /\ ~pre.m.write
    /\ "p" \in DOMAIN pre.m.forcing
    /\ TargetName = "p"
    /\ err = ErrOverwrite

\* C20 as stated: on a model in READ mode every component set call fails and
\* leaves the model unchanged, also when the name is new to the collection.
C20_Original ==
    (op \in SetOps /\ ~pre.m.write) =>
        /\ err # NoErr
        /\ model = pre.m

\* C20 amended: on a model in READ mode no set call changes or removes a
\* value a collection already holds, or touches another collection, the
\* config, the root or the mode; a call fails with the read-only error only
\* when its payload names a held name; a call of one valid value under a name
\* new to the collection succeeds and adds it.
C20_Amended ==
    (op \in SetOps /\ ~pre.m.write) =>
        /\ \A n \in DOMAIN pre.m[args.kind] :
              n \in DOMAIN model[args.kind] /\ model[args.kind][n] = pre.m[args.kind][n]
        /\ [model EXCEPT ![args.kind] = pre.m[args.kind]] = pre.m
        /\ (err = ErrOverwrite =>
               IF args.kind = "staticgeoms" THEN args.name \in DOMAIN pre.m.staticgeoms
               ELSE \E n \in DOMAIN pre.m[args.kind] :
                       n = args.name \/ n \in FieldNames(args.data.fields))
        /\ (OneValue /\ TargetName \notin DOMAIN pre.m[args.kind] =>
               /\ err = NoErr
               /\ model[args.kind] = Put(pre.m[args.kind], TargetName, TargetValue))

\* C20 witness: set_staticgeoms added a new name on a read-only model
C20_Witness ==
    /\ op = "set_staticgeoms"
    /\ ~pre.m.write
    /\ pre.m.read
    /\ args.name = "basins"
    /\ "basins" \notin DOMAIN pre.m.staticgeoms
    /\ err = NoErr
    /\ model.staticgeoms["basins"] = "R2"

Getters == Kinds

\* C21: a direct access of a component getter calls the kind's read
\* collaborator, once, exactly when the collection in memory is empty and the
\* model is readable (READ or READ_WRITE); so never in pure WRITE mode and
\* never once the collection holds something; and it calls no other read.
C21_LazyRead ==
    (op \in Getters) =>
        /\ CountEv("read_" \o op) =
              (IF pre.m[op] = EmptyMap /\ pre.m.read THEN 1 ELSE 0)
        /\ Len(trace) = CountEv("read_" \o op)
        /\ (Len(trace) = 0 => model = pre.m)

\* C21 witness: the forcing getter loaded the root's forcing on a readable model
C21_Witness ==
    /\ op = "forcing"
    /\ pre.m.read
    /\ pre.m.forcing = EmptyMap
    /\ CountEv("read_forcing") = 1
    /\ model.forcing = ForcingOnDisk

\* a Dataset payload set with an explicit name that none of its fields has
NameNotAField ==
    /\ op \in SetOps \ {"set_staticgeoms"}
    /\ args.data.type = "Dataset"
    /\ args.name # None
    /\ args.name \notin FieldNames(args.data.fields)

\* C22 as stated: such a call fails with the "name not found" ValueError and
\* leaves the model unchanged, whatever the payload, a single field included.
C22_Original ==
    NameNotAField => (err = ErrNameNotFound /\ model = pre.m)

\* C22 amended: set_staticmaps with a payload of two or more fields and a
\* name that is none of them fails with the "name not found" ValueError and
\* leaves the model unchanged; a payload of one field is renamed to the name
\* and set under it (refused, as any overwrite, when the name is held and the
\* model is not writable); set_forcing, set_states and set_results ignore the
\* name of a Dataset payload and set its fields under their own names.
C22_Amended ==
    NameNotAField =>
        IF op = "set_staticmaps"
        THEN IF Len(args.data.fields) >= 2
             THEN err = ErrNameNotFound /\ model = pre.m
             ELSE IF args.name \in DOMAIN pre.m.staticmaps /\ ~pre.m.write
                  THEN err = ErrOverwrite /\ model = pre.m
                  ELSE /\ err = NoErr
                       /\ model = [pre.m EXCEPT !.staticmaps =
                                      Put(@, args.name, args.data.fields[1].val)]
        ELSE /\ err \in {NoErr, ErrOverwrite}
             /\ (err = ErrOverwrite =>
                    ~pre.m.write /\ \E n \in FieldNames(args.data.fields) :
                                       n \in DOMAIN pre.m[args.kind])
             /\ (err = NoErr =>
                    model = [pre.m EXCEPT ![args.kind] =
                                [n \in (DOMAIN @) \cup FieldNames(args.data.fields) |->
                                    IF n \in FieldNames(args.data.fields)
                                    THEN AsMap(args.data.fields)[n] ELSE @[n]]])

\* C22 witness: set_staticmaps of fields slope and dem under the name elevtn
\* failed on a model that holds maps
C22_Witness ==
    /\ op = "set_staticmaps"
    /\ Len(args.data.fields) = 2
    /\ args.name = "elevtn"
    /\ pre.m.staticmaps # EmptyMap
    /\ err = ErrNameNotFound

WriteOps ==
    {"write_config", "write_staticmaps", "write_staticgeoms", "write_forcing",
     "write_states", "write_results"}

\* C23: every direct write_* call on a model that is not writable fails with
\* the read-only error and leaves the files as they were.
C23_WriteRefusedInReadMode ==
    (op \in WriteOps /\ ~pre.m.write) => (err = ErrReadOnly /\ disk = pre.d)

\* C25: a set_root call that fails because the root directory does not exist
\* leaves the root and the read / write flags the model had before the call.
C25_FailedSetRootKeepsRoot ==
    (op = "set_root" /\ err = ErrRootNotFound) =>
        /\ model.root = pre.m.root
        /\ model.read = pre.m.read
        /\ model.write = pre.m.write

\* C26: a component set call that fails with the read-only error leaves the
\* model as it was before the call, no earlier field of the payload inserted.
C26_FailedSetInsertsNothing ==
    (op \in SetOps /\ err = ErrOverwrite) => model = pre.m

\* the records the documented rule gives: the keyword argument if given,
\* else the positional argument at the parameter's index, else the default
RECURSIVE DocumentedLog(_, _, _, _)
DocumentedLog(sig, i, pos, kw) ==
    IF i > Len(sig) THEN <<>>
    ELSE LET k == sig[i].name
             rest == DocumentedLog(sig, i + 1, pos, kw)
         IN  IF k \in DOMAIN kw THEN <<[k |-> k, v |-> kw[k]]>> \o rest
             ELSE IF Len(pos) >= i THEN <<[k |-> k, v |-> pos[i]]>> \o rest
             ELSE IF sig[i].default # Empty
                  THEN <<[k |-> k, v |-> sig[i].default]>> \o rest
                  ELSE rest

\* C24: for every declared parameter of the method, _run_log_method logs the
\* keyword argument if given, else the positional argument at the parameter's
\* index if supplied, else the declared default, and nothing for a parameter
\* with none of the three; the method is called with the original arguments.
C24_LoggedValues ==
    op = "_run_log_method" =>
        /\ args.logged =
              DocumentedLog(Signature(Strip(args.method)), 1, args.pos, args.kw)
        /\ trace # <<>>
        /\ IsCall(trace[1])
        /\ trace[1].kw = args.kw

\* the run wrote the config file under model_out through a write_config entry
WroteConfigTo(root) ==
    \E i \in DOMAIN trace :
       /\ trace[i].ev = "write_config"
       /\ kw_config_root \in DOMAIN trace[i].kw
       /\ trace[i].kw[kw_config_root] = root

\* C27: update on a model that is already writable makes no read pass and no
\* re-root: the root and the read / write flags stay what they were before the
\* call, and the write pass targets the original root, even when an output
\* root is supplied (nothing is created or written under that output root).
C27_WritableUpdate ==
    (op = "update" /\ Validated /\ pre.m.write) =>
        /\ CountEv("read") = 0
        /\ CountEv("set_root") = 0
        /\ model.root = pre.m.root
        /\ model.read = pre.m.read
        /\ model.write = pre.m.write
        /\ \A i \in DOMAIN trace :
              trace[i].ev \in {"write", "write_staticmaps"} =>
                 trace[i].root = pre.m.root
        /\ (args.model_out \notin {None, pre.m.root} =>
               /\ (args.model_out \in disk.dirs) = (args.model_out \in pre.d.dirs)
               /\ disk.maps[args.model_out] = pre.d.maps[args.model_out]
               /\ (~WroteConfigTo(args.model_out) =>
                      disk.files[args.model_out] = pre.d.files[args.model_out]))

\* C27 witness: update with an output root other than the model's root returned
\* on a writable model after its write pass, which changed the original root
C27_Witness ==
    /\ op = "update"
    /\ pc = "done"
    /\ pre.m.write
    /\ args.model_out \notin {None, pre.m.root}
    /\ args.write
    /\ CountEv("write") = 1
    /\ model.root = pre.m.root
    /\ disk.files[pre.m.root] # pre.d.files[pre.m.root]
    /\ args.model_out \notin disk.dirs

\* no entry left in the caller's mapping calls setup_config
NoConfigEntry == \A i \in DOMAIN opt : Canonical(opt[i].key) # setup_config

\* C28: build and update consume the forced keys from the caller's own mapping
\* object: when the run returns, the mapping passed in no longer holds the keys
\* setup_config and setup_basemaps while every other entry is unchanged, so a
\* run started again with the same mapping object calls the forced methods
\* without the caller's original keyword arguments (setup_config with none,
\* setup_basemaps with the region and resolution of the call only).
C28_ForcedKeysConsumed ==
    /\ (op \in {"build", "update"} /\ pc = "done") =>
          /\ opt = Remaining
          /\ ~HasKey(opt, setup_config)
          /\ ~HasKey(opt, setup_basemaps)
    /\ (runs >= 2 /\ Validated) =>
          /\ opt0 = Remaining
          /\ (Len(Calls) >= 1 =>
                 /\ Calls[1].m = setup_config
                 /\ Calls[1].kw = EmptyMap)
          /\ (op = "build" /\ Len(Calls) >= 2 =>
                 /\ Calls[2].m = setup_basemaps
                 /\ Calls[2].kw = BasemapsKwargs(EmptyMap, args.region, args.res))

\* C28 witness: a second build with the mapping object of a first run returned
\* on a write-only model without a root (nothing was ever read from disk); the
\* first run was given keywords under setup_config
\* (the config tree it left is not empty and no other entry calls
\* setup_config), the second called setup_config with none
C28_Witness ==
    /\ runs = 2
    /\ op = "build"
    /\ pc = "done"
    /\ pre.m.root = None
    /\ pre.m.write
    /\ ~pre.m.read
    /\ pre.m.config # EmptyMap
    /\ NoConfigEntry
    /\ opt # <<>>
    /\ Calls[1].m = setup_config
    /\ Calls[1].kw = EmptyMap

====
